---- MODULE Spec2Model ----
(***************************************************************************)
(* Model of the stock-advisor risk-analytics core: scenario stress test    *)
(* (scenario_analysis.py), shock mapper (shock_sensitivity.py), HHI        *)
(* (concentration.py), correlation / VaR (correlation.py), return          *)
(* estimator (return_estimate.py) and health check (health_check.py).      *)
(*                                                                         *)
(* Numbers.  Decimal returns (shocks, impacts, VaR, estimates) are         *)
(* integers in units of 1e-4, so round(x, 4) is a rounding to an integer.  *)
(* Un-rounded products are carried exactly in units of 1e-6 (a shock in    *)
(* 1e-4 times a multiplier in 1e-2).  Quotients are rounded half-to-even   *)
(* on the exact rational, as Python's round() does on the value it holds.  *)
(***************************************************************************)
EXTENDS Integers, Sequences, FiniteSets, TLC

VARIABLES
    tickers,         \* run_scenario argument: list of raw ticker strings
    scenario_key,    \* run_scenario argument
    weights,         \* run_scenario argument: Nothing or Some(list of weights)
    pc,              \* position inside run_scenario
    idx,             \* index of the next ticker of the per-ticker loop
    calls,           \* data-client calls made so far: <<method, symbol>>
    impact_values,   \* local impact_values (un-rounded, 1e-6 units, input order)
    ticker_impacts,  \* local ticker_impacts (list of entries)
    w,               \* local w: the effective weights
    hhi,             \* local hhi, an exact fraction [num, den]
    portfolio_impact,\* local portfolio_impact, an exact fraction [num, den] (1e-6 units)
    var_95,          \* local var_95 (1e-4 units)
    var_99,          \* local var_99 (1e-4 units)
    corr_summary,    \* local corr_summary
    warnings,        \* messages given to logger.warning
    result,          \* the record run_scenario returns
    csv_rows,        \* PortfolioManager: the trade rows of the CSV file, in file order
    fn,              \* pure-function harness: which function is applied
    arg,             \* its input
    ret              \* its output

svars == <<tickers, scenario_key, weights, pc, idx, calls, impact_values,
           ticker_impacts, w, hhi, portfolio_impact, var_95, var_99,
           corr_summary, warnings, result, csv_rows>>
fvars == <<fn, arg, ret>>
vars == <<tickers, scenario_key, weights, pc, idx, calls, impact_values,
          ticker_impacts, w, hhi, portfolio_impact, var_95, var_99,
          corr_summary, warnings, result, csv_rows, fn, arg, ret>>

-----------------------------------------------------------------------------
(* Bounds of the model *)
MaxTickers == 2
MaxMapLen == 3
MaxWeights == 3
MaxDates == 3
MaxTrades == 3
MaxHoldings == 4

(* Program constants, in the units described above *)
CAGR_CAP == 5000
SMA_FAST == 50
SMA_SLOW == 200
RSI_WINDOW == 14

-----------------------------------------------------------------------------
(* Python values *)

\* Optional values: None is [has |-> FALSE], a present value carries v.
Nothing == [has |-> FALSE, v |-> 0]
Some(x) == [has |-> TRUE, v |-> x]

\* dict.get(key, default) on a dict modelled as a function
Get(d, k, default) == IF k \in DOMAIN d THEN d[k] ELSE default

EmptyDict == [k \in {} |-> 0]

Abs(x) == IF x < 0 THEN -x ELSE x
Min2(a, b) == IF a < b THEN a ELSE b
Max2(a, b) == IF a > b THEN a ELSE b

\* round(n / d) to the nearest integer, ties to even; d > 0
RoundHalfEven(n, d) ==
    LET q == n \div d
        r == n % d
    IN  IF 2 * r < d THEN q
        ELSE IF 2 * r > d THEN q + 1
        ELSE IF q % 2 = 0 THEN q ELSE q + 1

RECURSIVE SumSeq(_)
SumSeq(s) == IF s = <<>> THEN 0 ELSE Head(s) + SumSeq(Tail(s))

\* sum(a * b for a, b in zip(xs, ys)): zip stops at the shorter list
RECURSIVE SumProd(_, _)
SumProd(xs, ys) ==
    IF xs = <<>> \/ ys = <<>> THEN 0
    ELSE Head(xs) * Head(ys) + SumProd(Tail(xs), Tail(ys))

\* all sequences over S of length 0..n
SeqsUpTo(S, n) == UNION {[1..k -> S] : k \in 0..n}

-----------------------------------------------------------------------------
(* The market-data collaborator (yahoo_client): a fixed table of instruments *)

\* str.strip().upper() on the raw ticker strings of the model
Normalise(raw) ==
    CASE raw = " aaa" -> "AAA"
      [] OTHER        -> raw

RawTickers == {"AAA", " aaa", "BBB", "GLD", "TLT"}

\* get_ticker_info(sym): the fields the core reads.  nameKw is the set of ETF
\* keywords (upper-cased) that occur in the upper-cased display name; an
\* unknown symbol yields the empty mapping (every field absent).
ClientInfo(sym) ==
    CASE sym = "AAA" -> [known |-> TRUE, nameKw |-> {}, sector |-> "Technology"]
      [] sym = "BBB" -> [known |-> TRUE, nameKw |-> {}, sector |-> "Financial Services"]
      [] sym = "GLD" -> [known |-> TRUE, nameKw |-> {"GOLD"}, sector |-> ""]
      [] sym = "TLT" -> [known |-> TRUE, nameKw |-> {"20+", "TREASURY", "TREASUR", "BOND"},
                         sector |-> ""]
      [] sym = "BLV" -> [known |-> TRUE, nameKw |-> {"BOND"}, sector |-> ""]
      [] sym = "TIP" -> [known |-> TRUE, nameKw |-> {"TIPS", "BOND"}, sector |-> ""]
      [] sym = "ITA" -> [known |-> TRUE, nameKw |-> {"AEROSPACE", "DEFENSE"}, sector |-> ""]
      [] sym = "VYM" -> [known |-> TRUE, nameKw |-> {"DIVIDEND"}, sector |-> ""]
      [] sym = "SPY" -> [known |-> TRUE, nameKw |-> {}, sector |-> ""]
      [] sym = "XLK" -> [known |-> TRUE, nameKw |-> {}, sector |-> "Technology"]
      [] sym = "GOLDCO" -> [known |-> TRUE, nameKw |-> {"GOLD"}, sector |-> "Basic Materials"]
      [] sym = "IND" -> [known |-> TRUE, nameKw |-> {}, sector |-> "Industrials"]
      [] sym = "ODD" -> [known |-> TRUE, nameKw |-> {}, sector |-> "Conglomerates"]
      [] sym = "NOSEC" -> [known |-> TRUE, nameKw |-> {}, sector |-> ""]
      [] OTHER       -> [known |-> FALSE, nameKw |-> {}, sector |-> ""]

\* is_etf(sym)
ClientIsEtf(sym) == sym \in {"GLD", "TLT", "BLV", "TIP", "ITA", "VYM", "SPY", "XLK"}

\* every symbol the table knows, and one it does not
Instruments == {"AAA", "BBB", "GLD", "TLT", "BLV", "TIP", "ITA", "VYM", "SPY", "XLK",
                "GOLDCO", "IND", "ODD", "NOSEC", "ZZZ"}

NaN == -1

\* get_history(sym, "2y"): the Close column as <<date, close>> rows; a missing
\* close is NaN; an unknown symbol has an empty frame.
ClientHistory(sym) ==
    CASE sym = "AAA" -> << <<1, 10000>>, <<2, 11000>>, <<3, 9900>>, <<4, 10890>>,
                           <<5, 9801>>, <<6, 9801>> >>
      [] sym = "BBB" -> << <<1, 10000>>, <<2, 9000>>, <<3, 9900>>, <<4, 9900>>,
                           <<5, 10395>>, <<6, 10395>> >>
      [] sym = "GLD" -> << <<1, 5000>>, <<2, 5050>>, <<3, 5050>>, <<4, 4545>>,
                           <<5, 4545>>, <<6, 5454>> >>
      [] sym = "TLT" -> << <<1, 8000>>, <<2, NaN>>, <<3, 8800>>, <<4, 8800>>,
                           <<5, 7920>>, <<6, 7920>> >>
      [] OTHER       -> << >>

-----------------------------------------------------------------------------
(* The scenarios table (scenarios.yaml as loaded): shocks in 1e-4,          *)
(* sector multipliers in 1e-2                                              *)

Scenarios ==
    [ tech_crash |->
        [ shocks |-> [equity |-> -2000, technology |-> -3500],
          etf_overrides |-> [gold |-> 500],
          sector_multipliers |-> EmptyDict ],
      rate_shock |->
        [ shocks |-> [other_equity |-> -1001, long_bond |-> -1500, bond |-> -800],
          etf_overrides |-> [long_bond |-> -1800],
          sector_multipliers |-> ("Technology" :> 125) @@ ("Financial Services" :> 130) ] ]

ScenarioKeys == {"tech_crash", "rate_shock", "no_such_scenario"}

-----------------------------------------------------------------------------
(* shock_sensitivity.py *)

SECTOR_SHOCK_KEYS ==
    ("Technology" :> <<"technology", "equity">>) @@
    ("Communication Services" :> <<"technology", "equity">>) @@
    ("Real Estate" :> <<"real_estate", "equity">>) @@
    ("Energy" :> <<"oil", "equity">>) @@
    ("Basic Materials" :> <<"commodity", "equity">>) @@
    ("Consumer Cyclical" :> <<"other_equity", "equity">>) @@
    ("Consumer Defensive" :> <<"equity">>) @@
    ("Industrials" :> <<"other_equity", "equity">>) @@
    ("Healthcare" :> <<"healthcare", "equity">>) @@
    ("Financial Services" :> <<"equity">>) @@
    ("Utilities" :> <<"equity">>)

\* keyword groups in scan order, keywords upper-cased as the code compares them
\* (the Japanese keywords are written JP:<reading>)
ETF_CLASS_KEYWORDS ==
    << [kws |-> {"GOLD", "JP:KIN"}, class |-> "gold"],
       [kws |-> {"TREASURY", "T-BOND", "TREASUR"}, class |-> "treasury"],
       [kws |-> {"LONG BOND", "LONG-BOND", "20+", "JP:CHOKISAI", "TLT"}, class |-> "long_bond"],
       [kws |-> {"TIPS", "INFLATION", "JP:INFURE"}, class |-> "tips"],
       [kws |-> {"DEFENSE", "AEROSPACE", "JP:BOEI"}, class |-> "defense"],
       [kws |-> {"DIVIDEND", "INCOME", "JP:INKAMU", "JP:HAITO"}, class |-> "equity_income"],
       [kws |-> {"BOND", "JP:SAIKEN", "FIXED INCOME", "CREDIT"}, class |-> "long_bond"] >>

\* get_etf_class: the class of the first keyword group with a keyword in the
\* name, or "" (None) when no group matches
RECURSIVE EtfClassFrom(_, _)
EtfClassFrom(nameKw, i) ==
    IF i > Len(ETF_CLASS_KEYWORDS) THEN ""
    ELSE IF ETF_CLASS_KEYWORDS[i].kws \cap nameKw # {} THEN ETF_CLASS_KEYWORDS[i].class
    ELSE EtfClassFrom(nameKw, i + 1)

GetEtfClass(info) == EtfClassFrom(info.nameKw, 1)

\* get_shock_mapping: the ordered mapping as a list of [key, mult] (mult in 1e-2)
M_ShockMapNoFallback(info, is_etf) ==
    IF is_etf THEN
        LET c == GetEtfClass(info) IN
        CASE c = "gold" -> << [key |-> "gold", mult |-> 100] >>
          [] c \in {"long_bond", "treasury"} ->
                << [key |-> "long_bond", mult |-> 100], [key |-> "bond", mult |-> 100] >>
          [] c = "tips" -> << [key |-> "tips", mult |-> 100], [key |-> "bond", mult |-> 50] >>
          [] c = "defense" ->
                << [key |-> "defense", mult |-> 100], [key |-> "equity", mult |-> 50] >>
          [] OTHER -> << >>
    ELSE
        LET keys == Get(SECTOR_SHOCK_KEYS, info.sector, << >>)
        IN  [i \in 1..Len(keys) |-> [key |-> keys[i], mult |-> 100]]

ShockMapOf(info, is_etf) ==
    IF is_etf THEN
        LET c == GetEtfClass(info) IN
        CASE c = "gold" -> << [key |-> "gold", mult |-> 100] >>
          [] c \in {"long_bond", "treasury"} ->
                << [key |-> "long_bond", mult |-> 100], [key |-> "bond", mult |-> 100] >>
          [] c = "tips" -> << [key |-> "tips", mult |-> 100], [key |-> "bond", mult |-> 50] >>
          [] c = "defense" ->
                << [key |-> "defense", mult |-> 100], [key |-> "equity", mult |-> 50] >>
          [] OTHER -> << [key |-> "equity", mult |-> 100] >>
    ELSE
        LET keys == Get(SECTOR_SHOCK_KEYS, info.sector, <<"equity">>)
        IN  [i \in 1..Len(keys) |-> [key |-> keys[i], mult |-> 100]]

GetShockMapping(sym) == ShockMapOf(ClientInfo(sym), ClientIsEtf(sym))

MapKeys(m) == [i \in 1..Len(m) |-> m[i].key]

-----------------------------------------------------------------------------
(* scenario_analysis.py: _compute_impact and _describe_shock *)

NoBest == [found |-> FALSE, key |-> "", shock |-> 0]

\* the test of line 151: does shock_key replace the current best?
M_PreferFirstFound(best, shock_key) == ~best.found

Prefer(best, shock_key) ==
    ~best.found \/ (shock_key # "equity" /\ best.key = "equity")

\* the loop over shock_map (lines 146-153), from position i with `best` so far
RECURSIVE SelectLoop(_, _, _, _)
SelectLoop(keys, shocks, i, best) ==
    IF i > Len(keys) THEN best
    ELSE LET k == keys[i]
             nb == IF k \in DOMAIN shocks /\ Prefer(best, k)
                   THEN [found |-> TRUE, key |-> k, shock |-> shocks[k]]
                   ELSE best
         IN  SelectLoop(keys, shocks, i + 1, nb)

\* best_key / best_shock after the loop and the fallback of lines 155-158
M_BestShockNoOtherEquity(keys, shocks) ==
    LET b == SelectLoop(keys, shocks, 1, NoBest)
    IN  IF b.found THEN b
        ELSE [found |-> FALSE, key |-> "equity", shock |-> Get(shocks, "equity", 0)]

BestShock(keys, shocks) ==
    LET b == SelectLoop(keys, shocks, 1, NoBest)
    IN  IF b.found THEN b
        ELSE [found |-> FALSE, key |-> "equity",
              shock |-> Get(shocks, "equity", Get(shocks, "other_equity", 0))]

\* does the ETF override of lines 137-140 apply?
M_OverrideIgnoresEtfFlag(info, is_etf, etf_overrides) ==
    GetEtfClass(info) # "" /\ GetEtfClass(info) \in DOMAIN etf_overrides

OverrideApplies(info, is_etf, etf_overrides) ==
    is_etf /\ GetEtfClass(info) # "" /\ GetEtfClass(info) \in DOMAIN etf_overrides

\* _compute_impact, in 1e-6 units
ComputeImpact(sym, info, is_etf, shocks, etf_overrides, sector_multipliers) ==
    IF OverrideApplies(info, is_etf, etf_overrides)
    THEN etf_overrides[GetEtfClass(info)] * 100
    ELSE BestShock(MapKeys(GetShockMapping(sym)), shocks).shock
            * Get(sector_multipliers, info.sector, 100)

RECURSIVE FirstSpecific(_, _, _)
FirstSpecific(keys, shocks, i) ==
    IF i > Len(keys) THEN "equity"
    ELSE IF keys[i] \in DOMAIN shocks /\ keys[i] # "equity" THEN keys[i]
    ELSE FirstSpecific(keys, shocks, i + 1)

\* _describe_shock
DescribeShock(sym, info, is_etf, shocks, etf_overrides) ==
    IF OverrideApplies(info, is_etf, etf_overrides)
    THEN "ETF(" \o GetEtfClass(info) \o ")"
    ELSE FirstSpecific(MapKeys(GetShockMapping(sym)), shocks, 1)

\* the data-client calls of one _compute_impact or _describe_shock call:
\* get_shock_mapping asks for the info and the ETF flag again
HelperCalls(sym, info, is_etf, etf_overrides) ==
    IF OverrideApplies(info, is_etf, etf_overrides) THEN << >>
    ELSE << <<"get_ticker_info", sym>>, <<"is_etf", sym>> >>

-----------------------------------------------------------------------------
(* concentration.py *)

RECURSIVE SumSqPos(_)
SumSqPos(ws) ==
    IF ws = <<>> THEN 0
    ELSE (IF Head(ws) > 0 THEN Head(ws) * Head(ws) ELSE 0) + SumSqPos(Tail(ws))

\* calculate_hhi as the exact fraction num / den
M_HhiDenTotal(ws) ==
    IF ws = <<>> THEN [num |-> 0, den |-> 1]
    ELSE LET total == SumSeq(ws)
         IN  IF total <= 0 THEN [num |-> 0, den |-> 1]
             ELSE [num |-> SumSqPos(ws), den |-> total]

CalculateHhi(ws) ==
    IF ws = <<>> THEN [num |-> 0, den |-> 1]
    ELSE LET total == SumSeq(ws)
         IN  IF total <= 0 THEN [num |-> 0, den |-> 1]
             ELSE [num |-> SumSqPos(ws), den |-> total * total]

\* classify_hhi: thresholds 0.15 and 0.25, strict <
ClassifyHhi(h) ==
    IF h.num * 100 < 15 * h.den THEN "low"
    ELSE IF h.num * 100 < 25 * h.den THEN "medium"
    ELSE "high"

-----------------------------------------------------------------------------
(* correlation.py *)

\* Series.dropna() on <<date, value>> rows
DropNa(rows) == SelectSeq(rows, LAMBDA r : r[2] # NaN)

\* Series.pct_change().dropna(): the change at each date after the first, 1e-4 units
PctChange(prices) ==
    [i \in 1..(Len(prices) - 1) |->
        <<prices[i + 1][1], ((prices[i + 1][2] - prices[i][2]) * 10000) \div prices[i][2]>>]

\* does the ticker get a column (lines 24-31)?
Qualifies(t) == Len(DropNa(ClientHistory(t))) >= 5

\* the keys of `frames` in insertion order: qualifying tickers, first occurrence
RECURSIVE FrameCols(_)
FrameCols(tks) ==
    IF tks = <<>> THEN << >>
    ELSE LET front == SubSeq(tks, 1, Len(tks) - 1)
             t == tks[Len(tks)]
             cols == FrameCols(front)
         IN  IF Qualifies(t) /\ \A i \in 1..Len(cols) : cols[i] # t
             THEN Append(cols, t) ELSE cols

\* frames[t] of line 31, tabulated once per ticker
SeriesTable == [t \in RawTickers |-> PctChange(DropNa(ClientHistory(t)))]
SeriesOf(t) == SeriesTable[t]

HasDate(series, d) == \E i \in 1..Len(series) : series[i][1] = d
ValueAt(series, d) == series[CHOOSE i \in 1..Len(series) : series[i][1] = d][2]

AllDates == 1..6

\* rows of DataFrame(frames).dropna(): ascending dates present in every column
RECURSIVE RowsFrom(_, _)
RowsFrom(cols, d) ==
    IF d > 6 THEN << >>
    ELSE (IF \A i \in 1..Len(cols) : HasDate(SeriesOf(cols[i]), d)
          THEN << [date |-> d, vals |-> [i \in 1..Len(cols) |-> ValueAt(SeriesOf(cols[i]), d)]] >>
          ELSE << >>) \o RowsFrom(cols, d + 1)

\* fetch_returns
FetchReturns(tks) ==
    LET cols == FrameCols(tks)
    IN  IF cols = << >> THEN [cols |-> << >>, rows |-> << >>]
        ELSE [cols |-> cols, rows |-> RowsFrom(cols, 1)]

\* DataFrame.empty
IsEmpty(returns) == returns.cols = << >> \/ returns.rows = << >>

FetchCalls(tks) == [i \in 1..Len(tks) |-> <<"get_history", tks[i]>>]

\* calculate_correlation_matrix: the labels of the matrix (its coefficients are
\* not modelled); << >> is the empty frame
CalculateCorrelationMatrix(returns) ==
    IF IsEmpty(returns) \/ Len(returns.cols) < 2 THEN << >> ELSE returns.cols

\* top_correlated_pair: blank for an empty matrix, else the sentence naming a
\* pair (which pair is not modelled)
TopCorrelatedPair(corr_matrix) ==
    IF corr_matrix = << >> \/ Len(corr_matrix) < 2 THEN "" ELSE "pair"

\* weight vectors are exact: entry i is num[i] / den, den > 0
EqualWeights(n) == [num |-> [i \in 1..n |-> 1], den |-> n]

RECURSIVE InsertInt(_, _)
InsertInt(s, x) ==
    IF s = <<>> THEN <<x>>
    ELSE IF Head(s) <= x THEN <<Head(s)>> \o InsertInt(Tail(s), x)
    ELSE <<x>> \o s

RECURSIVE SortInts(_)
SortInts(s) ==
    IF s = <<>> THEN <<>>
    ELSE InsertInt(SortInts(SubSeq(s, 1, Len(s) - 1)), s[Len(s)])

\* lines 74-85: the weight vector applied to the n columns
VarWeights(wv, n) ==
    LET total == SumSeq(wv.num)
        nw == IF total > 0 THEN [num |-> wv.num, den |-> total] ELSE EqualWeights(n)
        k == Len(nw.num)
    IN  IF k >= n THEN [num |-> SubSeq(nw.num, 1, n), den |-> nw.den]
        ELSE [num |-> [i \in 1..n |-> IF i <= k THEN nw.num[i] * n ELSE nw.den],
              den |-> nw.den * n]

\* lines 74-85 for the `weights` argument as the caller passes it: None, or a
\* list of numbers
CalcVarWeights(ws, n) ==
    IF ~ws.has THEN EqualWeights(n)
    ELSE VarWeights([num |-> ws.v, den |-> 1], n)

\* np.percentile(values, p) with linear interpolation, times 100 * den, for
\* the sorted numerators xs of values xs[i] / den
M_PercentileFromTop(xs, p) ==
    LET pos == (Len(xs) - 1) * (100 - p)
        lo == pos \div 100
        fr == pos % 100
    IN  IF fr = 0 THEN xs[lo + 1] * 100
        ELSE xs[lo + 1] * 100 + fr * (xs[lo + 2] - xs[lo + 1])

PercentileNum(xs, p) ==
    LET pos == (Len(xs) - 1) * p
        lo == pos \div 100
        fr == pos % 100
    IN  IF fr = 0 THEN xs[lo + 1] * 100
        ELSE xs[lo + 1] * 100 + fr * (xs[lo + 2] - xs[lo + 1])

\* calculate_var with confidence = (100 - p) / 100, in 1e-4 units
CalculateVar(returns, wv, p) ==
    IF IsEmpty(returns) THEN 0
    ELSE LET n == Len(returns.cols)
             cw == VarWeights(wv, n)
             pr == [d \in 1..Len(returns.rows) |-> SumProd(returns.rows[d].vals, cw.num)]
         IN  RoundHalfEven(PercentileNum(SortInts(pr), p), 100 * cw.den)

-----------------------------------------------------------------------------
(* scenario_analysis.py: _align_weights *)

\* dict(zip(tickers, weights)).get(t, 0.0): the weight of the last occurrence
WMapGet(tks, ws, t) ==
    LET n == Min2(Len(tks), Len(ws))
        hits == {i \in 1..n : tks[i] = t}
    IN  IF hits = {} THEN 0
        ELSE ws[CHOOSE i \in hits : \A j \in hits : j <= i]

AlignWeights(tks, available, ws) ==
    LET aligned == [i \in 1..Len(available) |-> WMapGet(tks, ws, available[i])]
        total == SumSeq(aligned)
    IN  IF total <= 0 THEN EqualWeights(Len(available))
        ELSE [num |-> aligned, den |-> total]

-----------------------------------------------------------------------------
(* scenario_analysis.py: run_scenario *)

WeightVals == {-1, 0, 2}

NoResult == [returned |-> FALSE, error |-> "", hhi |-> 0, hhi_label |-> "",
             ticker_impacts |-> << >>, portfolio_impact |-> 0, var_95 |-> 0,
             var_99 |-> 0, correlation_summary |-> ""]

\* the record of lines 41 and 49: only the error field is set
ErrorResult(msg) == [NoResult EXCEPT !.returned = TRUE, !.error = msg]

\* lines 40-49: the error message of an input error, "" when the input is valid
M_InputErrorKeyOnly(key, tks) ==
    IF key \notin DOMAIN Scenarios THEN "scenario not found" ELSE ""

InputError(key, tks) ==
    IF key \notin DOMAIN Scenarios THEN "scenario not found"
    ELSE IF tks = << >> THEN "no tickers"
    ELSE ""

\* the entry appended for one ticker (lines 56-75); the display name is not modelled
ImpactEntry(raw, sc) ==
    LET sym == Normalise(raw)
        info == ClientInfo(sym)
        is_etf == ClientIsEtf(sym)
        impact == ComputeImpact(sym, info, is_etf, sc.shocks, sc.etf_overrides,
                                sc.sector_multipliers)
    IN  [ticker |-> sym,
         sector |-> IF info.sector = "" THEN "-" ELSE info.sector,
         is_etf |-> is_etf,
         impact_pct |-> RoundHalfEven(impact, 100),
         shock_applied |-> DescribeShock(sym, info, is_etf, sc.shocks, sc.etf_overrides)]

\* list.sort(key = impact_pct): ascending and stable
RECURSIVE InsertEntry(_, _)
InsertEntry(s, e) ==
    IF s = <<>> THEN <<e>>
    ELSE IF Head(s).impact_pct <= e.impact_pct THEN <<Head(s)>> \o InsertEntry(Tail(s), e)
    ELSE <<e>> \o s

M_NoSort(entries) == entries

RECURSIVE SortByImpact(_)
SortByImpact(entries) ==
    IF entries = <<>> THEN <<>>
    ELSE InsertEntry(SortByImpact(SubSeq(entries, 1, Len(entries) - 1)),
                     entries[Len(entries)])

\* line 81
EffectiveWeights(ws, tks) ==
    IF ws.has /\ Len(ws.v) > 0 /\ Len(ws.v) = Len(tks) THEN ws.v
    ELSE [i \in 1..Len(tks) |-> 1]

\* lines 86-91, as the exact fraction num / den in 1e-6 units
M_PortfolioImpactUnnormalised(impacts, ws) ==
    LET total_w == SumSeq(ws)
    IN  IF total_w > 0 THEN [num |-> SumProd(impacts, ws), den |-> 1]
        ELSE [num |-> 0, den |-> 1]

M_PortfolioImpactSortedPairing(impacts, ws) ==
    LET total_w == SumSeq(ws)
    IN  IF total_w > 0 THEN [num |-> SumProd(SortInts(impacts), ws), den |-> total_w]
        ELSE [num |-> 0, den |-> 1]

PortfolioImpact(impacts, ws) ==
    LET total_w == SumSeq(ws)
    IN  IF total_w > 0 THEN [num |-> SumProd(impacts, ws), den |-> total_w]
        ELSE [num |-> 0, den |-> 1]

ScenarioInit ==
    /\ tickers \in SeqsUpTo(RawTickers, MaxTickers)
    /\ scenario_key \in ScenarioKeys
    /\ weights \in {Nothing} \cup {Some(x) : x \in SeqsUpTo(WeightVals, MaxTickers)}
    /\ pc = "start"
    /\ idx = 1
    /\ calls = << >>
    /\ impact_values = << >>
    /\ ticker_impacts = << >>
    /\ w = << >>
    /\ hhi = [num |-> 0, den |-> 1]
    /\ portfolio_impact = [num |-> 0, den |-> 1]
    /\ var_95 = 0
    /\ var_99 = 0
    /\ corr_summary = ""
    /\ warnings = << >>
    /\ result = NoResult
    /\ csv_rows = << >>

\* lines 40-49
Validate ==
    /\ pc = "start"
    /\ IF InputError(scenario_key, tickers) # ""
       THEN /\ result' = ErrorResult(InputError(scenario_key, tickers))
            /\ pc' = "done"
       ELSE /\ pc' = "loop"
            /\ UNCHANGED result
    /\ UNCHANGED <<tickers, scenario_key, weights, idx, calls, impact_values,
                   ticker_impacts, w, hhi, portfolio_impact, var_95, var_99,
                   corr_summary, warnings, csv_rows>>

\* one iteration of the loop of lines 55-75
LoopStep ==
    /\ pc = "loop"
    /\ idx <= Len(tickers)
    /\ LET sc == Scenarios[scenario_key]
           sym == Normalise(tickers[idx])
           info == ClientInfo(sym)
           is_etf == ClientIsEtf(sym)
           helper == HelperCalls(sym, info, is_etf, sc.etf_overrides)
       IN  /\ calls' = calls \o << <<"get_ticker_info", sym>>, <<"is_etf", sym>> >>
                              \o helper \o helper
           /\ impact_values' =
                 Append(impact_values,
                        ComputeImpact(sym, info, is_etf, sc.shocks, sc.etf_overrides,
                                      sc.sector_multipliers))
           /\ ticker_impacts' = Append(ticker_impacts, ImpactEntry(tickers[idx], sc))
    /\ idx' = idx + 1
    /\ UNCHANGED <<tickers, scenario_key, weights, pc, w, hhi, portfolio_impact,
                   var_95, var_99, corr_summary, warnings, result, csv_rows>>

\* lines 77-91: sort, effective weights, HHI, weighted portfolio impact
SortAndAggregate ==
    /\ pc = "loop"
    /\ idx > Len(tickers)
    /\ ticker_impacts' = SortByImpact(ticker_impacts)
    /\ w' = EffectiveWeights(weights, tickers)
    /\ hhi' = CalculateHhi(w')
    /\ portfolio_impact' = PortfolioImpact(impact_values, w')
    /\ pc' = "corr"
    /\ UNCHANGED <<tickers, scenario_key, weights, idx, calls, impact_values,
                   var_95, var_99, corr_summary, warnings, result, csv_rows>>

\* the statements of the try block, in order
CorrSteps == <<"fetch_returns", "correlation_matrix", "align_weights", "var_95",
               "var_99", "top_pair">>

StepNo(step) == CHOOSE i \in 1..Len(CorrSteps) : CorrSteps[i] = step

\* lines 93-119: the try block, then the returned record.  failAt is the
\* statement that raises (caught by the except clause, which logs a warning),
\* or "none".  A statement after fetch_returns is only executed, and so can
\* only raise, when the return matrix is not empty.
CorrVarAndReturn(failAt) ==
    /\ pc = "corr"
    /\ LET returns == FetchReturns(tickers)
           nonempty == ~IsEmpty(returns)
           aligned_w == AlignWeights(tickers, returns.cols, w)
           reached(step) == failAt = "none" \/ StepNo(failAt) > StepNo(step)
       IN  /\ failAt \notin {"none", "fetch_returns"} => nonempty
           /\ calls' = calls \o FetchCalls(tickers)
           /\ var_95' = IF nonempty /\ reached("var_95")
                         THEN CalculateVar(returns, aligned_w, 5) ELSE 0
           /\ var_99' = IF nonempty /\ reached("var_99")
                         THEN CalculateVar(returns, aligned_w, 1) ELSE 0
           /\ corr_summary' = IF nonempty /\ reached("top_pair")
                               THEN TopCorrelatedPair(CalculateCorrelationMatrix(returns))
                               ELSE ""
           /\ warnings' = IF failAt = "none" THEN warnings
                           ELSE Append(warnings, failAt)
    /\ result' = [returned |-> TRUE, error |-> "",
                  hhi |-> RoundHalfEven(hhi.num * 10000, hhi.den),
                  hhi_label |-> ClassifyHhi(hhi),
                  ticker_impacts |-> ticker_impacts,
                  portfolio_impact |-> RoundHalfEven(portfolio_impact.num,
                                                     100 * portfolio_impact.den),
                  var_95 |-> var_95', var_99 |-> var_99',
                  correlation_summary |-> corr_summary']
    /\ pc' = "done"
    /\ UNCHANGED <<tickers, scenario_key, weights, idx, impact_values,
                   ticker_impacts, w, hhi, portfolio_impact, csv_rows>>

FailPoints == {"none"} \cup {CorrSteps[i] : i \in 1..Len(CorrSteps)}

FnIdle == fn = "none" /\ arg = << >> /\ ret = Nothing

Init == ScenarioInit /\ FnIdle

Next ==
    \/ (Validate /\ UNCHANGED fvars)
    \/ (LoopStep /\ UNCHANGED fvars)
    \/ (SortAndAggregate /\ UNCHANGED fvars)
    \/ (\E failAt \in FailPoints : CorrVarAndReturn(failAt) /\ UNCHANGED fvars)

Spec == Init /\ [][Next]_vars

-----------------------------------------------------------------------------
(* Claims about run_scenario, checked under Spec *)

Completed == pc = "done" /\ result.returned /\ result.error = ""

\* what the inputs alone determine for input position i
EntryAt(i) == ImpactEntry(tickers[i], Scenarios[scenario_key])
ImpactAt(i) ==
    LET sym == Normalise(tickers[i])
        sc == Scenarios[scenario_key]
    IN  ComputeImpact(sym, ClientInfo(sym), ClientIsEtf(sym), sc.shocks,
                      sc.etf_overrides, sc.sector_multipliers)

\* position of input i in the list ordered by (impact_pct, input position)
Rank(i) ==
    1 + Cardinality({j \in 1..Len(tickers) :
            \/ EntryAt(j).impact_pct < EntryAt(i).impact_pct
            \/ (EntryAt(j).impact_pct = EntryAt(i).impact_pct /\ j < i)})

\* C1: with an unknown scenario key or an empty ticker list, run_scenario
\* goes from its entry straight to the returned record, the record has its
\* error field set, and no data-client call and no per-ticker computation
\* has been made.
C1_InputErrorNoComputation ==
    (scenario_key \notin DOMAIN Scenarios \/ tickers = << >>) =>
        /\ pc \in {"start", "done"}
        /\ calls = << >>
        /\ impact_values = << >>
        /\ ticker_impacts = << >>
        /\ warnings = << >>
        /\ pc = "done" => (result.returned /\ result.error # ""
                             /\ result.ticker_impacts = << >>)

C1_Witness ==
    /\ pc = "done"
    /\ scenario_key \in DOMAIN Scenarios
    /\ tickers = << >>
    /\ result.error = "no tickers"

\* C2: a completed run reports one entry per input ticker, in non-decreasing
\* impact_pct order; the list is the input entries ordered by (impact_pct,
\* input position), so it is a function of the inputs alone.
C2_SortedImpacts ==
    Completed =>
        /\ Len(result.ticker_impacts) = Len(tickers)
        /\ \A i \in 1..(Len(tickers) - 1) :
              result.ticker_impacts[i].impact_pct <= result.ticker_impacts[i + 1].impact_pct
        /\ \A i \in 1..Len(tickers) : result.ticker_impacts[Rank(i)] = EntryAt(i)

C2_Witness ==
    /\ Completed
    /\ Len(tickers) = 2
    /\ EntryAt(1).impact_pct > EntryAt(2).impact_pct
    /\ result.ticker_impacts[1] = EntryAt(2)

\* C4: when a statement of the correlation/VaR block has failed, the run still
\* completes with error = None, the same impacts, HHI and portfolio impact,
\* and var_95 = 0.0, var_99 = 0.0 and a blank correlation summary together.
C4_FailureDegradesTogether ==
    (pc = "done" /\ warnings # << >>) =>
        /\ result.returned /\ result.error = ""
        /\ result.ticker_impacts = ticker_impacts
        /\ result.hhi = RoundHalfEven(hhi.num * 10000, hhi.den)
        /\ result.portfolio_impact =
              RoundHalfEven(portfolio_impact.num, 100 * portfolio_impact.den)
        /\ result.var_95 = 0
        /\ result.var_99 = 0
        /\ result.correlation_summary = ""

\* C7: the reported portfolio impact is sum(impact_i * w_i) / sum(w_i) over the
\* input positions i (rounded to 4 decimals), with w the supplied weights when
\* they are present and as long as the ticker list and all ones otherwise,
\* and 0.0 when sum(w) <= 0; with equal weights it is the mean impact.
C7_PortfolioImpact ==
    Completed =>
        LET n == Len(tickers)
            given == weights.has /\ Len(weights.v) = n
            wt == [i \in 1..n |-> IF given THEN weights.v[i] ELSE 1]
            total == SumSeq(wt)
            num == SumSeq([i \in 1..n |-> ImpactAt(i) * wt[i]])
        IN  /\ result.portfolio_impact =
                  IF total > 0 THEN RoundHalfEven(num, 100 * total) ELSE 0
            /\ (\A i \in 1..n : wt[i] = wt[1]) /\ total > 0 =>
                  result.portfolio_impact =
                      RoundHalfEven(SumSeq([i \in 1..n |-> ImpactAt(i)]), 100 * n)

C7_Witness ==
    /\ Completed
    /\ Len(tickers) = 2
    /\ weights.has /\ Len(weights.v) = 2
    /\ weights.v[1] = 2 /\ weights.v[2] = 0
    /\ ImpactAt(1) > ImpactAt(2)
    /\ result.portfolio_impact = RoundHalfEven(ImpactAt(1), 100)

\* C28: every data-client call of one run (get_ticker_info, is_etf and
\* get_history) is made with the normalised symbol of an input ticker.
C28_SameSymbolEverywhere ==
    \A k \in 1..Len(calls) :
        \E i \in 1..Len(tickers) : calls[k][2] = Normalise(tickers[i])

\* C29: when the effective weights are all non-negative with a positive sum,
\* the reported portfolio_impact lies between the smallest and the largest
\* impact_pct of the reported ticker_impacts (all rounded to 4 decimals).
C29_ImpactWithinRange ==
    (Completed /\ SumSeq(w) > 0 /\ \A i \in 1..Len(w) : w[i] >= 0) =>
        /\ \E i \in 1..Len(result.ticker_impacts) :
              result.ticker_impacts[i].impact_pct <= result.portfolio_impact
        /\ \E i \in 1..Len(result.ticker_impacts) :
              result.portfolio_impact <= result.ticker_impacts[i].impact_pct

C29_Witness ==
    /\ Completed
    /\ scenario_key = "rate_shock"
    /\ Len(tickers) = 2
    /\ w = <<2, 2>>
    /\ result.ticker_impacts[1].impact_pct < result.portfolio_impact
    /\ result.portfolio_impact < result.ticker_impacts[2].impact_pct
    /\ ImpactAt(1) % 100 # 0

\* C30: when both VaR figures were computed in the same run, var_99 <= var_95.
C30_Var99NotAboveVar95 ==
    (Completed /\ (warnings = << >> \/ warnings = <<"top_pair">>)) =>
        result.var_99 <= result.var_95

C30_Witness ==
    /\ Completed
    /\ warnings = << >>
    /\ result.var_99 < result.var_95
    /\ result.var_95 < 0

\* C19: the return matrix is empty whenever fewer than 2 of the requested
\* tickers qualify, so a completed run over such a portfolio reports
\* var_95 = var_99 = 0.0 and a blank correlation summary; a matrix that is
\* not empty has one value per column in every row, on dates present in
\* every included ticker's series.
C19_FewQualifyMeansEmpty ==
    Completed =>
        LET returns == FetchReturns(tickers)
            qualifying == {tickers[i] : i \in {j \in 1..Len(tickers) : Qualifies(tickers[j])}}
        IN  /\ Cardinality(qualifying) < 2 =>
                  /\ IsEmpty(returns)
                  /\ result.var_95 = 0
                  /\ result.var_99 = 0
                  /\ result.correlation_summary = ""
            /\ ~IsEmpty(returns) =>
                  \A r \in 1..Len(returns.rows) :
                      /\ Len(returns.rows[r].vals) = Len(returns.cols)
                      /\ \A c \in 1..Len(returns.cols) :
                            HasDate(SeriesOf(returns.cols[c]), returns.rows[r].date)

-----------------------------------------------------------------------------
(* Harness for the pure functions: one call, from its argument to its result *)

ScenarioIdle ==
    /\ tickers = << >>
    /\ scenario_key = ""
    /\ weights = Nothing
    /\ pc = "idle"
    /\ idx = 1
    /\ calls = << >>
    /\ impact_values = << >>
    /\ ticker_impacts = << >>
    /\ w = << >>
    /\ hhi = [num |-> 0, den |-> 1]
    /\ portfolio_impact = [num |-> 0, den |-> 1]
    /\ var_95 = 0
    /\ var_99 = 0
    /\ corr_summary = ""
    /\ warnings = << >>
    /\ result = NoResult
    /\ csv_rows = << >>

Called(f) == fn = f /\ ret.has

-----------------------------------------------------------------------------
(* The shock selection of _compute_impact over any ordered shock mapping *)

ShockTable == [equity |-> -2000, technology |-> -3500, other_equity |-> -1000,
               bond |-> -800]

\* ordered mappings: lists of distinct keys
ShockMaps ==
    {m \in SeqsUpTo(DOMAIN ShockTable, MaxMapLen) :
        Len(m) >= 1 /\ \A i, j \in 1..Len(m) : i # j => m[i] # m[j]}

\* shocks tables: ShockTable restricted to any set of keys
ShockDicts == {[k \in D |-> ShockTable[k]] : D \in SUBSET DOMAIN ShockTable}

ImpactInit ==
    /\ ScenarioIdle
    /\ fn = "best_shock"
    /\ arg \in [shock_map : ShockMaps, shocks : ShockDicts]
    /\ ret = Nothing

CallBestShock ==
    /\ fn = "best_shock"
    /\ ~ret.has
    /\ ret' = Some(BestShock(arg.shock_map, arg.shocks))
    /\ UNCHANGED <<fn, arg>>
    /\ UNCHANGED svars

ImpactNext == CallBestShock

SpecImpact == ImpactInit /\ [][ImpactNext]_vars

\* positions of the mapping whose key is specific and has a shock
SpecificHits(m, shocks) ==
    {i \in 1..Len(m) : m[i] # "equity" /\ m[i] \in DOMAIN shocks}

\* C3: when the mapping holds `equity` and at least one non-equity key that
\* is in the shocks table, the shock used is that of the first such
\* non-equity key in mapping order, wherever `equity` stands in the mapping.
C3_SpecificBeatsEquity ==
    Called("best_shock") =>
        LET m == arg.shock_map
            hits == SpecificHits(m, arg.shocks)
            first == CHOOSE i \in hits : \A j \in hits : i <= j
        IN  ((\E i \in 1..Len(m) : m[i] = "equity") /\ hits # {}) =>
                /\ ret.v.found
                /\ ret.v.key = m[first]
                /\ ret.v.key # "equity"
                /\ ret.v.shock = arg.shocks[m[first]]

C3_Witness ==
    /\ Called("best_shock")
    /\ arg.shock_map = <<"equity", "technology", "bond">>
    /\ DOMAIN arg.shocks = {"equity", "technology", "bond"}
    /\ ret.v.key = "technology"
    /\ ret.v.shock = -3500

-----------------------------------------------------------------------------
(* recommender.py *)

\* the thresholds of lines 27, 33, 39 and 46, in 1e-4 units
HHI_LIMIT == 2500
DRAWDOWN_LIMIT == -2500
VAR_LIMIT == -1500
TICKER_LIMIT == -4000

\* a recommendation is modelled by its kind and, for a per-ticker message,
\* the ticker it names
Rec(kind, ticker) == [kind |-> kind, ticker |-> ticker]

\* lines 45-51: one message per item with impact_pct < -0.40, in list order
M_PerTickerNonStrict(items) ==
    LET hits == SelectSeq(items, LAMBDA it : it.impact_pct <= TICKER_LIMIT)
    IN  [i \in 1..Len(hits) |-> Rec("ticker", hits[i].ticker)]

PerTickerMessages(items) ==
    LET hits == SelectSeq(items, LAMBDA it : it.impact_pct < TICKER_LIMIT)
    IN  [i \in 1..Len(hits) |-> Rec("ticker", hits[i].ticker)]

\* generate_recommendations
GenerateRecommendations(analysis) ==
    LET recs ==
            (IF analysis.hhi > HHI_LIMIT THEN << Rec("concentration", "") >> ELSE << >>)
            \o (IF analysis.portfolio_impact < DRAWDOWN_LIMIT
                THEN << Rec("drawdown", "") >> ELSE << >>)
            \o (IF analysis.var_95 < VAR_LIMIT THEN << Rec("var", "") >> ELSE << >>)
            \o PerTickerMessages(analysis.ticker_impacts)
    IN  IF recs = << >> THEN << Rec("no_risk", "") >> ELSE recs

(* generate_recommendations over analysis records around the thresholds *)

RecItems == [ticker : {"AAA", "BBB"}, impact_pct : {TICKER_LIMIT - 1, TICKER_LIMIT}]

RecsInit ==
    /\ ScenarioIdle
    /\ fn = "generate_recommendations"
    /\ arg \in [hhi : {HHI_LIMIT - 1, HHI_LIMIT, HHI_LIMIT + 1},
                portfolio_impact : {DRAWDOWN_LIMIT - 1, DRAWDOWN_LIMIT, DRAWDOWN_LIMIT + 1},
                var_95 : {VAR_LIMIT - 1, VAR_LIMIT, VAR_LIMIT + 1},
                ticker_impacts : SeqsUpTo(RecItems, MaxTickers)]
    /\ ret = Nothing

CallGenerateRecommendations ==
    /\ fn = "generate_recommendations"
    /\ ~ret.has
    /\ ret' = Some(GenerateRecommendations(arg))
    /\ UNCHANGED <<fn, arg>>
    /\ UNCHANGED svars

RecsNext == CallGenerateRecommendations

SpecRecs == RecsInit /\ [][RecsNext]_vars

KindRank(kind) ==
    CASE kind = "concentration" -> 1
      [] kind = "drawdown" -> 2
      [] kind = "var" -> 3
      [] kind = "ticker" -> 4
      [] OTHER -> 5

\* C17: the list holds the concentration message iff hhi > 0.25, the drawdown
\* message iff portfolio_impact < -0.25, the VaR message iff var_95 < -0.15,
\* and one message per entry of ticker_impacts with impact_pct < -0.40, in
\* that order and the per-ticker ones in list order; it holds the
\* no-major-risk message iff none of those fired, and is never empty.
C17_Recommendations ==
    Called("generate_recommendations") =>
        LET r == ret.v
            has(kind) == \E i \in 1..Len(r) : r[i].kind = kind
            count(kind) == Cardinality({i \in 1..Len(r) : r[i].kind = kind})
            hits == SelectSeq(arg.ticker_impacts, LAMBDA it : it.impact_pct < -4000)
            named == SelectSeq(r, LAMBDA m : m.kind = "ticker")
            fired == arg.hhi > 2500 \/ arg.portfolio_impact < -2500
                     \/ arg.var_95 < -1500 \/ hits # << >>
        IN  /\ Len(r) >= 1
            /\ has("concentration") <=> arg.hhi > 2500
            /\ has("drawdown") <=> arg.portfolio_impact < -2500
            /\ has("var") <=> arg.var_95 < -1500
            /\ \A k \in {"concentration", "drawdown", "var", "no_risk"} : count(k) <= 1
            /\ Len(named) = Len(hits)
            /\ \A i \in 1..Len(hits) : named[i].ticker = hits[i].ticker
            /\ \A i, j \in 1..Len(r) : i < j => KindRank(r[i].kind) <= KindRank(r[j].kind)
            /\ has("no_risk") <=> ~fired
            /\ has("no_risk") => Len(r) = 1

C17_Witness ==
    /\ Called("generate_recommendations")
    /\ arg.hhi = 2501 /\ arg.portfolio_impact = -2500 /\ arg.var_95 = -1501
    /\ Len(arg.ticker_impacts) = 2
    /\ arg.ticker_impacts[1] = [ticker |-> "BBB", impact_pct |-> -4000]
    /\ arg.ticker_impacts[2] = [ticker |-> "AAA", impact_pct |-> -4001]
    /\ ret.v = << Rec("concentration", ""), Rec("var", ""), Rec("ticker", "AAA") >>

(* the concentration figures of one scenario result and the recommendations *)
(* drawn from it, for any effective weights                                  *)

\* run_scenario lines 80-83 and 108-113 for the effective weights w: the label
\* is computed from the un-rounded HHI, the reported HHI is rounded; then
\* generate_recommendations on a result carrying these figures (the other
\* figures are below their thresholds)
ConcentrationVerdict(wts) ==
    LET h == CalculateHhi(wts)
        reported == RoundHalfEven(h.num * 10000, h.den)
    IN  [hhi |-> reported,
         hhi_label |-> ClassifyHhi(h),
         recs |-> GenerateRecommendations([hhi |-> reported, portfolio_impact |-> 0,
                                           var_95 |-> 0, ticker_impacts |-> << >>])]

HoldingWeights == {1, 2, 3}

VerdictInit ==
    /\ ScenarioIdle
    /\ fn = "concentration_verdict"
    /\ arg \in SeqsUpTo(HoldingWeights, MaxHoldings) \ {<< >>}
    /\ ret = Nothing

CallConcentrationVerdict ==
    /\ fn = "concentration_verdict"
    /\ ~ret.has
    /\ ret' = Some(ConcentrationVerdict(arg))
    /\ UNCHANGED <<fn, arg>>
    /\ UNCHANGED svars

VerdictNext == CallConcentrationVerdict

SpecVerdict == VerdictInit /\ [][VerdictNext]_vars

\* C26: the result carries the high-concentration label exactly when
\* generate_recommendations on that result emits the concentration
\* recommendation.
C26_VerdictsAgree ==
    Called("concentration_verdict") =>
        (ret.v.hhi_label = "high"
            <=> \E i \in 1..Len(ret.v.recs) : ret.v.recs[i].kind = "concentration")

-----------------------------------------------------------------------------
(* get_shock_mapping for any ticker info *)

\* keywords that may occur in a display name, and sector names: those of the
\* table, a missing sector and a sector the table does not know
NameKeywords == {"GOLD", "TREASURY", "20+", "TIPS", "DEFENSE", "DIVIDEND", "BOND"}
SectorNames == (DOMAIN SECTOR_SHOCK_KEYS) \cup {"", "Conglomerates"}

MappingInit ==
    /\ ScenarioIdle
    /\ fn = "get_shock_mapping"
    /\ arg \in [is_etf : BOOLEAN,
                info : [known : {TRUE}, nameKw : SUBSET NameKeywords, sector : SectorNames]]
    /\ ret = Nothing

CallGetShockMapping ==
    /\ fn = "get_shock_mapping"
    /\ ~ret.has
    /\ ret' = Some(ShockMapOf(arg.info, arg.is_etf))
    /\ UNCHANGED <<fn, arg>>
    /\ UNCHANGED svars

MappingNext == CallGetShockMapping

SpecMapping == MappingInit /\ [][MappingNext]_vars

\* C16: get_shock_mapping returns a non-empty mapping for every ticker; an
\* equity whose sector is missing or not in the sector table, and an ETF whose
\* name matches no keyword group or is classified equity_income, get exactly
\* {equity: 1.0}.
C16_MappingNonEmpty ==
    Called("get_shock_mapping") =>
        LET generic == << [key |-> "equity", mult |-> 100] >>
        IN  /\ Len(ret.v) >= 1
            /\ (~arg.is_etf /\ arg.info.sector \notin DOMAIN SECTOR_SHOCK_KEYS) =>
                    ret.v = generic
            /\ (arg.is_etf /\ arg.info.nameKw = {}) => ret.v = generic
            /\ (arg.is_etf /\ GetEtfClass(arg.info) \in {"", "equity_income"}) =>
                    ret.v = generic

C16_Witness ==
    /\ Called("get_shock_mapping")
    /\ arg.is_etf
    /\ arg.info.nameKw = {"DIVIDEND", "BOND"}
    /\ GetEtfClass(arg.info) = "equity_income"
    /\ ret.v = << [key |-> "equity", mult |-> 100] >>

-----------------------------------------------------------------------------
(* _compute_impact for every instrument under any scenario definition *)

ShockTableWide == [equity |-> -2000, technology |-> -3500, other_equity |-> -1000,
                   bond |-> -800, long_bond |-> -1500, gold |-> 300]
OverrideTable == [gold |-> 500, treasury |-> -300, long_bond |-> -1800]
MultiplierTable == ("Technology" :> 125) @@ ("Financial Services" :> 150)

\* every restriction of a table to a set of its keys
SubDicts(table) == {[k \in D |-> table[k]] : D \in SUBSET DOMAIN table}

ComputeInit ==
    /\ ScenarioIdle
    /\ fn = "compute_impact"
    /\ arg \in [sym : Instruments, shocks : SubDicts(ShockTableWide),
                etf_overrides : SubDicts(OverrideTable),
                sector_multipliers : SubDicts(MultiplierTable)]
    /\ ret = Nothing

\* the calls of lines 62-66 for one ticker, with what the client returns for it
CallComputeImpact ==
    /\ fn = "compute_impact"
    /\ ~ret.has
    /\ LET info == ClientInfo(arg.sym)
           is_etf == ClientIsEtf(arg.sym)
       IN  ret' = Some([impact |-> ComputeImpact(arg.sym, info, is_etf, arg.shocks,
                                                 arg.etf_overrides, arg.sector_multipliers),
                        shock_applied |-> DescribeShock(arg.sym, info, is_etf, arg.shocks,
                                                        arg.etf_overrides),
                        shock_map |-> GetShockMapping(arg.sym)])
    /\ UNCHANGED <<fn, arg>>
    /\ UNCHANGED svars

ComputeNext == CallComputeImpact

SpecCompute == ComputeInit /\ [][ComputeNext]_vars

\* C12: for an ETF whose asset class is a key of etf_overrides the impact is
\* exactly that override value, whatever the shock mapping, the shocks table
\* and the sector_multipliers table hold; for a non-ETF ticker the impact is
\* the one computed with an empty etf_overrides table.
C12_OverrideShortCircuits ==
    Called("compute_impact") =>
        LET info == ClientInfo(arg.sym)
            cls == GetEtfClass(info)
        IN  /\ (ClientIsEtf(arg.sym) /\ cls \in DOMAIN arg.etf_overrides) =>
                    ret.v.impact = arg.etf_overrides[cls] * 100
            /\ ~ClientIsEtf(arg.sym) =>
                    /\ ret.v.impact =
                          ComputeImpact(arg.sym, info, FALSE, arg.shocks, EmptyDict,
                                        arg.sector_multipliers)
                    /\ ret.v.shock_applied =
                          DescribeShock(arg.sym, info, FALSE, arg.shocks, EmptyDict)

C12_Witness ==
    /\ Called("compute_impact")
    /\ arg.sym = "GLD"
    /\ DOMAIN arg.etf_overrides = {"gold"}
    /\ "gold" \in DOMAIN arg.shocks
    /\ ret.v.impact = 50000
    /\ ret.v.shock_applied = "ETF(gold)"

\* C13: without an override, when no key of the ticker's shock mapping is in
\* the shocks table the base shock is shocks[equity], else shocks[other_equity],
\* else 0.0, and otherwise it is the shock of one of the mapping's keys; the
\* impact is the base shock times sector_multipliers[sector], with multiplier
\* 1.0 when the sector is not in that table.
C13_FallbackAndMultiplier ==
    Called("compute_impact") =>
        LET info == ClientInfo(arg.sym)
            cls == GetEtfClass(info)
            overridden == ClientIsEtf(arg.sym) /\ cls \in DOMAIN arg.etf_overrides
            keys == MapKeys(ret.v.shock_map)
            hits == {i \in 1..Len(keys) : keys[i] \in DOMAIN arg.shocks}
            fallback == IF "equity" \in DOMAIN arg.shocks THEN arg.shocks["equity"]
                        ELSE IF "other_equity" \in DOMAIN arg.shocks
                             THEN arg.shocks["other_equity"]
                        ELSE 0
            mult == IF info.sector \in DOMAIN arg.sector_multipliers
                    THEN arg.sector_multipliers[info.sector] ELSE 100
        IN  ~overridden =>
                /\ hits = {} => ret.v.impact = fallback * mult
                /\ hits # {} => \E i \in hits : ret.v.impact = arg.shocks[keys[i]] * mult

C13_Witness ==
    /\ Called("compute_impact")
    /\ arg.sym = "BBB"
    /\ DOMAIN arg.shocks = {"other_equity", "bond"}
    /\ DOMAIN arg.sector_multipliers = {"Technology", "Financial Services"}
    /\ ret.v.impact = -150000

\* C20: an ETF classified as treasury gets the same impact and the same shock
\* mapping as every ETF classified as long_bond with the same sector, under
\* every shocks, etf_overrides and sector_multipliers table.
C20_TreasuryLongBondMerged ==
    (Called("compute_impact") /\ ClientIsEtf(arg.sym)
        /\ GetEtfClass(ClientInfo(arg.sym)) = "treasury") =>
        \A other \in Instruments :
            (ClientIsEtf(other) /\ GetEtfClass(ClientInfo(other)) = "long_bond"
                /\ ClientInfo(other).sector = ClientInfo(arg.sym).sector) =>
                /\ GetShockMapping(other) = ret.v.shock_map
                /\ ComputeImpact(other, ClientInfo(other), TRUE, arg.shocks,
                                 arg.etf_overrides, arg.sector_multipliers) = ret.v.impact

\* C21: the shock_applied label names the key whose value gave the impact:
\* ETF(<class>) exactly when the etf_overrides value was used, otherwise the
\* shocks-table key whose shock was selected, the fallback key (equity, else
\* other_equity) included; when the 0.0 default was used no key is required.
C21_LabelNamesUsedKey ==
    Called("compute_impact") =>
        LET info == ClientInfo(arg.sym)
            cls == GetEtfClass(info)
            overridden == ClientIsEtf(arg.sym) /\ cls \in DOMAIN arg.etf_overrides
            keys == MapKeys(ret.v.shock_map)
            best == BestShock(keys, arg.shocks)
            label == ret.v.shock_applied
        IN  /\ overridden <=> label = "ETF(" \o cls \o ")"
            /\ (~overridden /\ best.found) => label = best.key
            /\ (~overridden /\ ~best.found /\ "equity" \in DOMAIN arg.shocks) =>
                    label = "equity"
            /\ (~overridden /\ ~best.found /\ "equity" \notin DOMAIN arg.shocks
                    /\ "other_equity" \in DOMAIN arg.shocks) => label = "other_equity"

-----------------------------------------------------------------------------
(* the weight vector of calculate_var for any weights argument *)

VarInit ==
    /\ ScenarioIdle
    /\ fn = "calculate_var"
    /\ arg \in [n : 1..MaxTickers,
                weights : {Nothing} \cup {Some(x) : x \in SeqsUpTo(WeightVals, MaxWeights)}]
    /\ ret = Nothing

\* calculate_var on a non-empty matrix of arg.n columns, up to the vector w
\* that multiplies the matrix (line 87)
CallCalculateVar ==
    /\ fn = "calculate_var"
    /\ ~ret.has
    /\ ret' = Some(CalcVarWeights(arg.weights, arg.n))
    /\ UNCHANGED <<fn, arg>>
    /\ UNCHANGED svars

VarNext == CallCalculateVar

SpecVar == VarInit /\ [][VarNext]_vars

\* C22: the weight vector calculate_var applies to n columns has exactly n
\* entries that sum to 1; when the weights are missing, have a non-positive
\* sum or a length different from n, it is the equal-weight vector 1/n.
C22_VarWeightsNormalised ==
    Called("calculate_var") =>
        LET wv == ret.v
            fallback == \/ ~arg.weights.has
                        \/ SumSeq(arg.weights.v) <= 0
                        \/ Len(arg.weights.v) # arg.n
        IN  /\ Len(wv.num) = arg.n
            /\ wv.den > 0
            /\ SumSeq(wv.num) = wv.den
            /\ fallback => \A i \in 1..arg.n : wv.num[i] * arg.n = wv.den

-----------------------------------------------------------------------------
(* calculate_hhi over any list of weights *)

HhiVals == {-2, 0, 1, 3}

HhiInit ==
    /\ ScenarioIdle
    /\ fn = "calculate_hhi"
    /\ arg \in SeqsUpTo(HhiVals, MaxWeights)
    /\ ret = Nothing

CallCalculateHhi ==
    /\ fn = "calculate_hhi"
    /\ ~ret.has
    /\ ret' = Some(CalculateHhi(arg))
    /\ UNCHANGED <<fn, arg>>
    /\ UNCHANGED svars

HhiNext == CallCalculateHhi

SpecHhi == HhiInit /\ [][HhiNext]_vars

\* C10: calculate_hhi returns a value in [0, 1] for every list of weights,
\* lists mixing positive and negative weights with a positive sum included.
C10_HhiInUnitInterval ==
    Called("calculate_hhi") => (0 <= ret.v.num /\ ret.v.num <= ret.v.den)

\* k * W
ScaleWeights(ws, k) == [i \in 1..Len(ws) |-> k * ws[i]]

ScaleFactors == {2, 3, 10}

\* C11: calculate_hhi(k * W) = calculate_hhi(W) for every list W and factor
\* k > 0; the result is 0.0 for an empty list and for a list whose sum is
\* <= 0, and exactly 1.0 for a single positive weight.
C11_HhiScaleInvariant ==
    Called("calculate_hhi") =>
        /\ \A k \in ScaleFactors :
              LET scaled == CalculateHhi(ScaleWeights(arg, k))
              IN  scaled.num * ret.v.den = ret.v.num * scaled.den
        /\ (arg = << >> \/ SumSeq(arg) <= 0) => ret.v.num = 0
        /\ (Len(arg) = 1 /\ arg[1] > 0) => ret.v.num = ret.v.den

C11_Witness ==
    /\ Called("calculate_hhi")
    /\ arg = <<1, 3>>
    /\ ret.v = [num |-> 10, den |-> 16]
    /\ CalculateHhi(ScaleWeights(arg, 3)) = [num |-> 90, den |-> 144]

-----------------------------------------------------------------------------
(* return_estimate.py *)

\* `a or b` on optional numbers: a when it is present and not zero, else b
PyOr(a, b) == IF a.has /\ a.v # 0 THEN a ELSE b

NoEstimate == [raised |-> FALSE, is_etf |-> FALSE, method |-> "",
               optimistic |-> 0, base |-> 0, pessimistic |-> 0,
               current_price |-> Nothing, note |-> ""]

\* the all-zero estimate with an explanatory note
ZeroEstimate(is_etf, method, current_price, note) ==
    [NoEstimate EXCEPT !.is_etf = is_etf, !.method = method,
                       !.current_price = current_price, !.note = note]

\* an exception leaving estimate_return
Raised(is_etf, method, current_price) ==
    [NoEstimate EXCEPT !.raised = TRUE, !.is_etf = is_etf, !.method = method,
                       !.current_price = current_price]

\* lines 74-104 for a current price cp # 0 and a mean target tm.  Values are
\* carried as numerators over 200 * cp, which keeps the 0.3 spread, the 0.05
\* spread, the halving and the 1.3 widening exact; round(x, 4) is then
\* the rounding of num * 50 / cp.
EquityFigures(cp, th, tm, tl, analyst_count) ==
    LET base == 200 * (tm - cp)
        synth == ~th.has \/ ~tl.has \/ (th.v = tl.v /\ tl.v = tm)
        spread == IF base # 0 THEN (Abs(base) * 3) \div 10 ELSE 10 * cp
        opt0 == IF synth THEN base + spread ELSE 200 * (th.v - cp)
        pes0 == IF synth THEN base - spread ELSE 200 * (tl.v - cp)
        thin == analyst_count < 3
        mid == (opt0 + pes0) \div 2
        half == ((opt0 - pes0) * 13) \div 20
        opt == IF thin THEN mid + half ELSE opt0
        pes == IF thin THEN mid - half ELSE pes0
    IN  [optimistic |-> RoundHalfEven(opt * 50, cp),
         base |-> RoundHalfEven(base * 50, cp),
         pessimistic |-> RoundHalfEven(pes * 50, cp),
         note |-> (IF synth THEN "auto spread applied" ELSE "")
                  \o (IF thin THEN "(spread widened 1.3x)" ELSE "")]

\* _estimate_equity
EstimateEquity(current_price, analyst) ==
    LET analyst_count == IF analyst.analyst_count.has THEN analyst.analyst_count.v ELSE 0
    IN  IF ~current_price.has \/ ~analyst.target_mean.has
        THEN ZeroEstimate(FALSE, "analyst", current_price, "no analyst target data")
        ELSE IF current_price.v = 0
        THEN Raised(FALSE, "analyst", current_price)   \* ZeroDivisionError, line 74
        ELSE LET f == EquityFigures(current_price.v, analyst.target_high,
                                    analyst.target_mean.v, analyst.target_low,
                                    analyst_count)
             IN  [raised |-> FALSE, is_etf |-> FALSE, method |-> "analyst",
                  optimistic |-> f.optimistic, base |-> f.base,
                  pessimistic |-> f.pessimistic,
                  current_price |-> current_price, note |-> f.note]

ISqrt(x) == CHOOSE r \in 0..200 : r * r = x

\* lines 159-164: total_return ** (12 / n_months) - 1 in 1e-4 units, for the
\* month counts of the model (exponents 2, 1 and 1/2; the total returns of
\* the model make each of them exact)
CagrOf(total_return, n_months) ==
    IF total_return <= 0 THEN -9900
    ELSE CASE n_months = 6  -> (total_return * total_return) \div 10000 - 10000
           [] n_months = 12 -> total_return - 10000
           [] n_months = 24 -> 100 * ISqrt(total_return) - 10000

\* lines 168-170
EtfOptimistic(cagr, sigma) == Min2(cagr + sigma, CAGR_CAP)
EtfPessimistic(cagr, sigma) == Max2(cagr - sigma, -CAGR_CAP)
EtfBase(cagr) == Max2(Min2(cagr, CAGR_CAP), -CAGR_CAP)

\* _estimate_etf.  The history h is summarised by what the function reads:
\* empty / has_close (line 114), n_closes = len(prices) (line 128),
\* n_months = len(monthly_returns) (lines 145, 159), total_return (line 160)
\* and sigma, the annualised standard deviation of line 166, both in 1e-4.
EstimateEtf(current_price, h) ==
    IF h.empty \/ ~h.has_close
    THEN ZeroEstimate(TRUE, "cagr", current_price, "no price history")
    ELSE IF h.n_closes < 24
    THEN ZeroEstimate(TRUE, "cagr", current_price, "price history under 24 months")
    ELSE IF h.n_months < 2
    THEN ZeroEstimate(TRUE, "cagr", current_price, "not enough monthly returns")
    ELSE LET cagr == CagrOf(h.total_return, h.n_months)
         IN  [raised |-> FALSE, is_etf |-> TRUE, method |-> "cagr",
              optimistic |-> EtfOptimistic(cagr, h.sigma),
              base |-> EtfBase(cagr),
              pessimistic |-> EtfPessimistic(cagr, h.sigma),
              current_price |-> current_price,
              note |-> "CAGR from monthly returns"]

\* estimate_return
EstimateReturn(a) ==
    LET current_price == PyOr(a.currentPrice, a.regularMarketPrice)
    IN  IF a.is_etf THEN EstimateEtf(current_price, a.history)
        ELSE EstimateEquity(current_price, a.analyst)

(* inputs of the harness *)
Opt(S) == {Nothing} \cup {Some(x) : x \in S}

AnalystData ==
    [target_high : Opt({120, 140}), target_mean : Opt({0, 120}),
     target_low : Opt({100, 120}), analyst_count : Opt({0, 2, 5})]

NoAnalyst == [target_high |-> Nothing, target_mean |-> Nothing,
              target_low |-> Nothing, analyst_count |-> Nothing]

NoHistory == [empty |-> TRUE, has_close |-> FALSE, n_closes |-> 0, n_months |-> 0,
              total_return |-> 0, sigma |-> 0]

\* <<daily closes, monthly returns>> a 2-year window can hold
HistoryShapes == {<<10, 0>>, <<24, 1>>, <<130, 6>>, <<250, 12>>, <<500, 24>>}

EtfHistories ==
    {NoHistory, [NoHistory EXCEPT !.empty = FALSE]} \cup
    {[empty |-> FALSE, has_close |-> TRUE, n_closes |-> sh[1], n_months |-> sh[2],
      total_return |-> tr, sigma |-> sg] :
        sh \in HistoryShapes,
        tr \in {0, 2500, 8100, 10000, 14400, 40000},
        sg \in {0, 500, 3000, 9000}}

EstimateArgs ==
    {[is_etf |-> FALSE, currentPrice |-> cp, regularMarketPrice |-> rp,
      analyst |-> an, history |-> NoHistory] :
        cp \in Opt({0, 100}), rp \in Opt({0, 100}), an \in AnalystData}
    \cup
    {[is_etf |-> TRUE, currentPrice |-> cp, regularMarketPrice |-> Nothing,
      analyst |-> NoAnalyst, history |-> h] :
        cp \in Opt({100}), h \in EtfHistories}

EstimateInit ==
    /\ ScenarioIdle
    /\ fn = "estimate_return"
    /\ arg \in EstimateArgs
    /\ ret = Nothing

CallEstimateReturn ==
    /\ fn = "estimate_return"
    /\ ~ret.has
    /\ ret' = Some(EstimateReturn(arg))
    /\ UNCHANGED <<fn, arg>>
    /\ UNCHANGED svars

EstimateNext == CallEstimateReturn

SpecEstimate == EstimateInit /\ [][EstimateNext]_vars

\* C5: every estimate _estimate_etf reports has optimistic, base and
\* pessimistic within [-0.50, 0.50].
C5_EtfWithinCap ==
    (Called("estimate_return") /\ arg.is_etf) =>
        /\ ~ret.v.raised
        /\ -CAGR_CAP <= ret.v.optimistic /\ ret.v.optimistic <= CAGR_CAP
        /\ -CAGR_CAP <= ret.v.base /\ ret.v.base <= CAGR_CAP
        /\ -CAGR_CAP <= ret.v.pessimistic /\ ret.v.pessimistic <= CAGR_CAP

\* C6: estimate_return for an equity never raises, whatever is absent or zero
\* among the prices, the targets and the analyst count; with the current
\* price or the mean target missing the estimate is all zero with a note.
C6_EquityNeverRaises ==
    (Called("estimate_return") /\ ~arg.is_etf) =>
        /\ ~ret.v.raised
        /\ ret.v.method = "analyst"
        /\ (~PyOr(arg.currentPrice, arg.regularMarketPrice).has
                \/ ~arg.analyst.target_mean.has) =>
              /\ ret.v.optimistic = 0 /\ ret.v.base = 0 /\ ret.v.pessimistic = 0
              /\ ret.v.note # ""

\* C14: for an equity with the current price and the mean target present,
\* an estimate is returned with base = (target_mean - current) / current;
\* with analyst_count >= 3 and usable high/low targets the band is
\* (target_high - current) / current and (target_low - current) / current;
\* with analyst_count < 3 (a missing count is 0) the band keeps its midpoint
\* and its half-width is multiplied by 1.3 (all figures rounded to 4 decimals).
C14_EquityBand ==
    (Called("estimate_return") /\ ~arg.is_etf
        /\ PyOr(arg.currentPrice, arg.regularMarketPrice).has
        /\ arg.analyst.target_mean.has) =>
        LET cp == PyOr(arg.currentPrice, arg.regularMarketPrice).v
            th == arg.analyst.target_high
            tm == arg.analyst.target_mean.v
            tl == arg.analyst.target_low
            count == IF arg.analyst.analyst_count.has THEN arg.analyst.analyst_count.v ELSE 0
            usable == th.has /\ tl.has /\ ~(th.v = tl.v /\ tl.v = tm)
            \* the band before widening, as mid and half over 200 * cp
            mid == IF usable THEN 100 * (th.v + tl.v - 2 * cp) ELSE 200 * (tm - cp)
            half == IF usable THEN 100 * (th.v - tl.v)
                    ELSE IF tm # cp THEN 60 * Abs(tm - cp) ELSE 10 * cp
        IN  /\ ~ret.v.raised
            /\ ret.v.base = RoundHalfEven(10000 * (tm - cp), cp)
            /\ (count >= 3 /\ usable) =>
                  /\ ret.v.optimistic = RoundHalfEven(10000 * (th.v - cp), cp)
                  /\ ret.v.pessimistic = RoundHalfEven(10000 * (tl.v - cp), cp)
            /\ count >= 3 =>
                  /\ ret.v.optimistic = RoundHalfEven(50 * (mid + half), cp)
                  /\ ret.v.pessimistic = RoundHalfEven(50 * (mid - half), cp)
            /\ count < 3 =>
                  /\ ret.v.optimistic = RoundHalfEven(5 * (10 * mid + 13 * half), cp)
                  /\ ret.v.pessimistic = RoundHalfEven(5 * (10 * mid - 13 * half), cp)

\* C25: every estimate returned for an ETF has pessimistic <= base <=
\* optimistic.
C25_EtfOrdered ==
    (Called("estimate_return") /\ arg.is_etf) =>
        /\ ~ret.v.raised
        /\ ret.v.pessimistic <= ret.v.base
        /\ ret.v.base <= ret.v.optimistic

\* C18: _estimate_etf reports an all-zero estimate with a note for every
\* history that covers fewer than 24 months (n monthly returns span n + 1
\* month ends) or yields fewer than 2 monthly returns.
C18_EtfNeeds24Months ==
    (Called("estimate_return") /\ arg.is_etf
        /\ (arg.history.n_months + 1 < 24 \/ arg.history.n_months < 2)) =>
        /\ ret.v.optimistic = 0 /\ ret.v.base = 0 /\ ret.v.pessimistic = 0
        /\ ret.v.note # "CAGR from monthly returns"
        /\ ret.v.note # ""

-----------------------------------------------------------------------------
(* technicals.py: get_technical_signals *)

\* The price history h is summarised by what the signals depend on:
\*   n          number of non-missing closes (0: empty frame or no close)
\*   current    the last close
\*   s50, s200  the rolling means at the last date (defined from SMA_FAST and
\*              from SMA_SLOW closes on)
\*   prev_above whether SMA50 > SMA200 at the date before the last
\*   rsi        the last RSI value in 0.1 units, absent when the average loss
\*              is zero (defined from RSI_WINDOW + 1 closes on)
DefaultSignals ==
    [current_price |-> Nothing, sma50 |-> Nothing, sma200 |-> Nothing,
     rsi |-> Nothing, cross |-> "none", above_sma50 |-> FALSE,
     above_sma200 |-> FALSE, sma50_near_sma200 |-> FALSE]

\* detect_cross on the last two dates where both averages are defined
M_DetectCrossSwapped(overlap, prev_above, curr_above) ==
    IF overlap < 2 THEN "none"
    ELSE IF ~prev_above /\ curr_above THEN "dead"
    ELSE IF prev_above /\ ~curr_above THEN "golden"
    ELSE "none"

DetectCross(overlap, prev_above, curr_above) ==
    IF overlap < 2 THEN "none"
    ELSE IF ~prev_above /\ curr_above THEN "golden"
    ELSE IF prev_above /\ ~curr_above THEN "dead"
    ELSE "none"

\* detect_cross on two series given date by date (a NaN or a date missing
\* from the index is Nothing): lines 54-61 pick the dates, DetectCross decides
CommonDates(fast, slow) ==
    {d \in (DOMAIN fast) \cap (DOMAIN slow) : fast[d].has /\ slow[d].has}

LastDate(dates) == CHOOSE d \in dates : \A e \in dates : e <= d

DetectCrossSeries(fast, slow) ==
    LET common == CommonDates(fast, slow)
    IN  IF Cardinality(common) < 2 THEN DetectCross(Cardinality(common), FALSE, FALSE)
        ELSE LET curr == LastDate(common)
                 prev == LastDate(common \ {curr})
             IN  DetectCross(Cardinality(common), fast[prev].v > slow[prev].v,
                             fast[curr].v > slow[curr].v)

M_SignalsWithoutPresenceTest(h) ==
    IF h.n = 0 THEN DefaultSignals
    ELSE LET has50 == h.n >= SMA_FAST
             has200 == h.n >= SMA_SLOW
             hasRsi == h.n >= RSI_WINDOW + 1 /\ h.rsi.has
         IN  [current_price |-> Some(h.current),
              sma50 |-> IF has50 THEN Some(h.s50) ELSE Nothing,
              sma200 |-> IF has200 THEN Some(h.s200) ELSE Nothing,
              rsi |-> IF hasRsi THEN h.rsi ELSE Nothing,
              cross |-> IF has50 /\ has200
                        THEN DetectCross(h.n - SMA_SLOW + 1, h.prev_above, h.s50 > h.s200)
                        ELSE "none",
              above_sma50 |-> h.current > h.s50,
              above_sma200 |-> has200 /\ h.current > h.s200,
              sma50_near_sma200 |->
                  has50 /\ has200 /\ h.s200 # 0
                  /\ 20 * Abs(h.s50 - h.s200) < h.s200]

GetTechnicalSignals(h) ==
    IF h.n = 0 THEN DefaultSignals
    ELSE LET has50 == h.n >= SMA_FAST
             has200 == h.n >= SMA_SLOW
             hasRsi == h.n >= RSI_WINDOW + 1 /\ h.rsi.has
         IN  [current_price |-> Some(h.current),
              sma50 |-> IF has50 THEN Some(h.s50) ELSE Nothing,
              sma200 |-> IF has200 THEN Some(h.s200) ELSE Nothing,
              rsi |-> IF hasRsi THEN h.rsi ELSE Nothing,
              cross |-> IF has50 /\ has200
                        THEN DetectCross(h.n - SMA_SLOW + 1, h.prev_above, h.s50 > h.s200)
                        ELSE "none",
              above_sma50 |-> has50 /\ h.current > h.s50,
              above_sma200 |-> has200 /\ h.current > h.s200,
              sma50_near_sma200 |->
                  has50 /\ has200 /\ h.s200 # 0
                  /\ 20 * Abs(h.s50 - h.s200) < h.s200]

(* detect_cross over any two series on MaxDates dates *)

SmaVals == {10, 11, 12}

SmaSeries == [1..MaxDates -> {Nothing} \cup {Some(x) : x \in SmaVals}]

CrossInit ==
    /\ ScenarioIdle
    /\ fn = "detect_cross"
    /\ arg \in [fast : SmaSeries, slow : SmaSeries]
    /\ ret = Nothing

CallDetectCross ==
    /\ fn = "detect_cross"
    /\ ~ret.has
    /\ ret' = Some(DetectCrossSeries(arg.fast, arg.slow))
    /\ UNCHANGED <<fn, arg>>
    /\ UNCHANGED svars

CrossNext == CallDetectCross

SpecCross == CrossInit /\ [][CrossNext]_vars

\* C15: with p and c the last two dates on which both series are defined,
\* detect_cross returns golden iff fast <= slow at p and fast > slow at c,
\* dead iff fast > slow at p and fast <= slow at c, and none otherwise and
\* whenever fewer than two such dates exist; the values at every other date
\* do not matter, and the result is one of the three words.
C15_DetectCross ==
    Called("detect_cross") =>
        LET both == {d \in 1..MaxDates : arg.fast[d].has /\ arg.slow[d].has}
            c == CHOOSE d \in both : \A e \in both : e <= d
            p == CHOOSE d \in both \ {c} : \A e \in both \ {c} : e <= d
            f(d) == arg.fast[d].v
            sl(d) == arg.slow[d].v
        IN  /\ ret.v \in {"golden", "dead", "none"}
            /\ Cardinality(both) < 2 => ret.v = "none"
            /\ Cardinality(both) >= 2 =>
                  /\ ret.v = "golden" <=> (f(p) <= sl(p) /\ f(c) > sl(c))
                  /\ ret.v = "dead" <=> (f(p) > sl(p) /\ f(c) <= sl(c))

C15_Witness ==
    /\ Called("detect_cross")
    /\ arg.fast[1] = Some(10) /\ arg.slow[1] = Some(12)
    /\ ~arg.fast[2].has /\ arg.slow[2] = Some(11)
    /\ arg.fast[3] = Some(11) /\ arg.slow[3] = Some(10)
    /\ \A d \in 4..MaxDates : ~arg.fast[d].has /\ ~arg.slow[d].has
    /\ ret.v = "golden"

-----------------------------------------------------------------------------
(* health_check.py *)

\* _check_fundamental_deterioration; the ratios are in 1e-2 units
CheckFundamentalDeterioration(info) ==
    (IF info.returnOnEquity.has /\ info.returnOnEquity.v < 5 THEN 1 ELSE 0)
    + (IF info.revenueGrowth.has /\ info.revenueGrowth.v < 0 THEN 1 ELSE 0)
    + (IF info.operatingMargins.has /\ info.operatingMargins.v < 0 THEN 1 ELSE 0)

Oversold(tech) == tech.rsi.has /\ tech.rsi.v < 300

\* lines 85-106: the signal descriptions, in the order they are appended
SignalList(tech, is_etf, funda_count) ==
    (IF tech.cross = "dead" THEN <<"dead cross">> ELSE << >>)
    \o (IF ~tech.above_sma50 /\ tech.sma50.has THEN <<"below SMA50">> ELSE << >>)
    \o (IF Oversold(tech) THEN <<"RSI oversold">> ELSE << >>)
    \o (IF tech.sma50_near_sma200 THEN <<"SMA50 near SMA200">> ELSE << >>)
    \o (IF ~is_etf /\ funda_count >= 2 THEN <<"fundamentals: 2 or more">>
        ELSE IF ~is_etf /\ funda_count = 1 THEN <<"fundamentals: 1">>
        ELSE << >>)

\* lines 108-126: level determination
Level(tech, is_etf, funda_count) ==
    LET dead_cross == tech.cross = "dead"
    IN  IF is_etf THEN
            IF dead_cross THEN "exit"
            ELSE IF tech.sma50_near_sma200 THEN "caution"
            ELSE IF ~tech.above_sma50 \/ Oversold(tech) THEN "watch"
            ELSE "ok"
        ELSE
            IF dead_cross /\ funda_count >= 2 THEN "exit"
            ELSE IF tech.sma50_near_sma200 /\ funda_count >= 1 THEN "caution"
            ELSE IF ~tech.above_sma50 \/ Oversold(tech) THEN "watch"
            ELSE "ok"

\* check_health
CheckHealth(a) ==
    LET tech == GetTechnicalSignals(a.history)
        funda_count == IF a.is_etf THEN 0 ELSE CheckFundamentalDeterioration(a.info)
    IN  [is_etf |-> a.is_etf,
         level |-> Level(tech, a.is_etf, funda_count),
         signals |-> SignalList(tech, a.is_etf, funda_count),
         technicals |-> tech]

(* inputs of the harness *)
Fundamentals ==
    [returnOnEquity : Opt({2, 10}), revenueGrowth : Opt({-5, 5}),
     operatingMargins : Opt({-1, 3})]

PriceHistories ==
    [n : {0, 30, 100, 200, 250}, current : {95, 105}, s50 : {100},
     s200 : {80, 97, 103, 120}, prev_above : BOOLEAN, rsi : Opt({250, 500})]

HealthArgs == [is_etf : BOOLEAN, info : Fundamentals, history : PriceHistories]

HealthInit ==
    /\ ScenarioIdle
    /\ fn = "check_health"
    /\ arg \in HealthArgs
    /\ ret = Nothing

CallCheckHealth ==
    /\ fn = "check_health"
    /\ ~ret.has
    /\ ret' = Some(CheckHealth(arg))
    /\ UNCHANGED <<fn, arg>>
    /\ UNCHANGED svars

HealthNext == CallCheckHealth

SpecHealth == HealthInit /\ [][HealthNext]_vars

\* the technical conditions as the claims word them, read off the returned
\* TechnicalSignalSet: the price is below SMA50 when SMA50 is present and the
\* price is not above it
PriceBelowSma50(tech) ==
    tech.current_price.has /\ tech.sma50.has /\ ~(tech.current_price.v > tech.sma50.v)

NoFundamentals == [returnOnEquity |-> Nothing, revenueGrowth |-> Nothing,
                   operatingMargins |-> Nothing]

\* C8: for an ETF the level is exit on a dead cross, else caution when SMA50
\* is near SMA200, else watch when the price is below SMA50 or RSI < 30, else
\* ok; level and signal list do not depend on the fundamental ratios.
C8_EtfLevel ==
    (Called("check_health") /\ arg.is_etf) =>
        LET tech == ret.v.technicals
            expected ==
                IF tech.cross = "dead" THEN "exit"
                ELSE IF tech.sma50_near_sma200 THEN "caution"
                ELSE IF PriceBelowSma50(tech) \/ Oversold(tech) THEN "watch"
                ELSE "ok"
            bare == CheckHealth([arg EXCEPT !.info = NoFundamentals])
        IN  /\ ret.v.level = expected
            /\ ret.v.level = bare.level
            /\ ret.v.signals = bare.signals

\* C9: for an equity the level is exit iff dead cross and fundamental count
\* >= 2, otherwise caution iff SMA50 near SMA200 and count >= 1, otherwise
\* watch iff the price is below SMA50 or RSI < 30, otherwise ok.
C9_EquityLevel ==
    (Called("check_health") /\ ~arg.is_etf) =>
        LET tech == ret.v.technicals
            count == CheckFundamentalDeterioration(arg.info)
            expected ==
                IF tech.cross = "dead" /\ count >= 2 THEN "exit"
                ELSE IF tech.sma50_near_sma200 /\ count >= 1 THEN "caution"
                ELSE IF PriceBelowSma50(tech) \/ Oversold(tech) THEN "watch"
                ELSE "ok"
        IN  /\ ret.v.level = expected
            /\ (tech.cross = "dead" /\ count <= 1) => ret.v.level # "exit"

\* C23: in every TechnicalSignalSet, above_sma50 holds only with sma50
\* present, above_sma200 only with sma200 present, sma50_near_sma200 and a
\* cross other than none only with both present; a history without any
\* usable close (empty, no Close column, or only missing closes) yields the
\* all-absent default record.
C23_SignalsNeedTheirSma ==
    Called("check_health") =>
        LET tech == ret.v.technicals
        IN  /\ tech.above_sma50 => tech.sma50.has
            /\ tech.above_sma200 => tech.sma200.has
            /\ tech.sma50_near_sma200 => (tech.sma50.has /\ tech.sma200.has)
            /\ tech.cross # "none" => (tech.sma50.has /\ tech.sma200.has)
            /\ arg.history.n = 0 =>
                  /\ ~tech.current_price.has /\ ~tech.sma50.has
                  /\ ~tech.sma200.has /\ ~tech.rsi.has
                  /\ tech.cross = "none" /\ ~tech.above_sma50
                  /\ ~tech.above_sma200 /\ ~tech.sma50_near_sma200

C23_Witness ==
    /\ Called("check_health")
    /\ arg.history.n = 30
    /\ arg.history.current > arg.history.s50
    /\ ret.v.technicals.current_price.has
    /\ ~ret.v.technicals.sma50.has
    /\ ~ret.v.technicals.above_sma50

\* C24: a level above ok implies a non-empty signals list; a ticker with no
\* usable price history and no fundamental deterioration is at level ok.
C24_LevelHasSignal ==
    Called("check_health") =>
        /\ ret.v.level # "ok" => ret.v.signals # << >>
        /\ (arg.history.n = 0
                /\ (arg.is_etf \/ CheckFundamentalDeterioration(arg.info) = 0)) =>
              ret.v.level = "ok"

-----------------------------------------------------------------------------
(* portfolio_manager.py: PortfolioManager *)

\* str.upper() and str.lower() on the strings of the model
Upper(raw) ==
    CASE raw = "aaa" -> "AAA"
      [] OTHER       -> raw

Lower(raw) ==
    CASE raw = "SELL" -> "sell"
      [] OTHER        -> raw

\* the running record of one ticker (line 118); cost_total is the exact
\* fraction cost_num / cost_den, cost_den > 0
NoPosition == [quantity |-> 0, cost_num |-> 0, cost_den |-> 1]

\* lines 111-128: one row applied to the positions dict
ApplyTrade(positions, row) ==
    LET pos == IF row.ticker \in DOMAIN positions THEN positions[row.ticker] ELSE NoPosition
        action == Lower(row.action)
        held == pos.quantity
        new ==
            IF action = "buy"
            THEN [quantity |-> held + row.quantity,
                  cost_num |-> pos.cost_num + row.quantity * row.price * pos.cost_den,
                  cost_den |-> pos.cost_den]
            ELSE IF action = "sell"
            THEN IF held > 0
                 THEN [quantity |-> held - row.quantity,
                       cost_num |-> pos.cost_num * (held - row.quantity),
                       cost_den |-> pos.cost_den * held]
                 ELSE [pos EXCEPT !.quantity = held - row.quantity]
            ELSE pos
    IN  [t \in (DOMAIN positions) \cup {row.ticker} |->
            IF t = row.ticker THEN new ELSE positions[t]]

\* the loop of lines 109-128 over the rows in file order
RECURSIVE PositionsAfter(_)
PositionsAfter(rows) ==
    IF rows = << >> THEN [t \in {} |-> NoPosition]
    ELSE ApplyTrade(PositionsAfter(SubSeq(rows, 1, Len(rows) - 1)), rows[Len(rows)])

\* get_positions; avg_price is the exact fraction avg_num / avg_den
GetPositions(rows) ==
    LET positions == PositionsAfter(rows)
    IN  [t \in {u \in DOMAIN positions : positions[u].quantity > 0} |->
            [quantity |-> positions[t].quantity,
             avg_num |-> positions[t].cost_num,
             avg_den |-> positions[t].cost_den * positions[t].quantity]]

TradeActions == {"buy", "SELL"}
TradeTickers == {"aaa", "BBB"}
TradeQuantities == {1, 3}
TradePrices == {10, 20}

PortfolioInit ==
    /\ ScenarioIdle
    /\ fn = "get_positions"
    /\ arg = << >>
    /\ ret = Nothing

\* add_trade with a valid action (any other action raises ValueError before
\* the file is touched): one row appended to the CSV
AddTrade(action, ticker, quantity, price) ==
    /\ fn = "get_positions"
    /\ Len(csv_rows) < MaxTrades
    /\ Lower(action) \in {"buy", "sell"}
    /\ csv_rows' = Append(csv_rows, [action |-> Lower(action), ticker |-> Upper(ticker),
                                     quantity |-> quantity, price |-> price])
    /\ ret' = Nothing
    /\ UNCHANGED <<tickers, scenario_key, weights, pc, idx, calls, impact_values,
                   ticker_impacts, w, hhi, portfolio_impact, var_95, var_99,
                   corr_summary, warnings, result, fn, arg>>

CallGetPositions ==
    /\ fn = "get_positions"
    /\ ~ret.has
    /\ ret' = Some(GetPositions(csv_rows))
    /\ UNCHANGED <<fn, arg>>
    /\ UNCHANGED svars

PortfolioNext ==
    \/ \E action \in TradeActions, ticker \in TradeTickers,
          quantity \in TradeQuantities, price \in TradePrices :
            AddTrade(action, ticker, quantity, price)
    \/ CallGetPositions

SpecPortfolio == PortfolioInit /\ [][PortfolioNext]_vars

\* the buy prices recorded for a ticker
BuyPrices(rows, t) ==
    {rows[i].price : i \in {j \in 1..Len(rows) : rows[j].ticker = t /\ rows[j].action = "buy"}}

\* avg_price of ticker t after the first k rows, as a fraction; has = FALSE
\* when the ticker is not reported
AvgAfter(rows, k, t) ==
    LET ps == GetPositions(SubSeq(rows, 1, k))
    IN  IF t \in DOMAIN ps THEN [has |-> TRUE, num |-> ps[t].avg_num, den |-> ps[t].avg_den]
        ELSE [has |-> FALSE, num |-> 0, den |-> 1]

\* C27: after any sequence of add_trade calls every reported position has
\* quantity > 0 and an avg_price between the lowest and the highest buy price
\* recorded for its ticker; a sell of at most the current holding that leaves
\* a position leaves its avg_price unchanged.
C27_PositionsSane ==
    Called("get_positions") =>
        /\ \A t \in DOMAIN ret.v :
              /\ ret.v[t].quantity > 0
              /\ ret.v[t].avg_den > 0
              /\ \E lo, hi \in BuyPrices(csv_rows, t) :
                    /\ lo * ret.v[t].avg_den <= ret.v[t].avg_num
                    /\ ret.v[t].avg_num <= hi * ret.v[t].avg_den
        /\ \A k \in 1..Len(csv_rows) :
              LET row == csv_rows[k]
                  before == AvgAfter(csv_rows, k - 1, row.ticker)
                  after == AvgAfter(csv_rows, k, row.ticker)
              IN  (row.action = "sell" /\ before.has /\ after.has) =>
                      before.num * after.den = after.num * before.den

====
